---- MODULE Spec2Model ----
(***************************************************************************)
(* A model of app.py, the cafe manager: three tables (menu, user,          *)
(* checkout) in an SQLite store, nine POST handlers that validate a form   *)
(* and run one SQL statement or a short sequence of them, and init_db, the *)
(* additive migration run at every process start.                          *)
(*                                                                         *)
(* Every query() and execute() call opens its own connection and commits   *)
(* (app.py 21-32), so one SQL statement is one atomic step and the         *)
(* handlers of two requests interleave between their statements.           *)
(*                                                                         *)
(* Text is a sequence of one-character strings, so that strip(), `or` and  *)
(* int() are computed as Python computes them.                             *)
(***************************************************************************)
EXTENDS Integers, Sequences, FiniteSets, TLC

VARIABLES
    menu,       \* table menu:     ID -> row
    user,       \* table user:     ID -> row
    checkout,   \* table checkout: ID -> row
    tabs,       \* the tables the store holds
    cols,       \* table -> the columns it has
    now,        \* the wall clock read by datetime('now')
    req,        \* worker -> the request it is handling: its position and locals
    resp,       \* the response of the request that finished last
    boot,       \* init_db: its position, the run number, the store after run 1
    cap         \* the largest ID explored: an INSERT that would pass it is not taken

vars == <<menu, user, checkout, tabs, cols, now, req, resp, boot, cap>>

store == <<menu, user, checkout>>

schema == <<tabs, cols>>

-----------------------------------------------------------------------------
(* Bounds *)

\* the largest ID explored when requests interleave
MaxId == 2

\* the largest ID explored when requests are served one at a time
MaxSeqId == 1

\* process starts explored (init_db runs once per start)
MaxRuns == 2

\* the largest reading of the wall clock
MaxClock == 2

\* the workers that serve requests at the same time
Workers == {1, 2}

-----------------------------------------------------------------------------
(* Python text *)

\* request.form.get(k) of a field the form does not have
None == <<"None">>

\* SQL NULL
Null == <<"NULL">>

\* the label 'عمومی' (general), transliterated
DefaultCategory == <<"o", "m", "u", "m", "i">>

\* the label 'در انتظار' (pending), transliterated
DefaultStatus == <<"d", "a", "r", " ", "e", "n", "t", "e", "z", "a", "r">>

Whitespace == {" "}

Digits == {"0", "1", "2", "3", "4", "5", "6", "7", "8", "9"}

RECURSIVE lstrip(_)
lstrip(s) == IF s # <<>> /\ Head(s) \in Whitespace THEN lstrip(Tail(s)) ELSE s

RECURSIVE rstrip(_)
rstrip(s) ==
    IF s # <<>> /\ s[Len(s)] \in Whitespace
    THEN rstrip(SubSeq(s, 1, Len(s) - 1))
    ELSE s

\* str.strip()
strip(s) == rstrip(lstrip(s))

\* Python's `v or d` on an optional string: None and "" are falsy
Or(v, d) == IF v = None \/ v = <<>> THEN d ELSE v

\* the text of a form field as the handlers read it: (form.get(k) or d).strip()
field(v, d) == strip(Or(v, d))

\* the unsigned part of an integer literal
unsigned(s) == IF s # <<>> /\ Head(s) \in {"+", "-"} THEN Tail(s) ELSE s

\* int(s) does not raise ValueError: an optional sign, then digits, single
\* underscores allowed between digits, white space around ignored
parses(s) ==
    LET u == unsigned(strip(s))
    IN  /\ u # <<>>
        /\ \A i \in 1..Len(u) :
              \/ u[i] \in Digits
              \/ /\ u[i] = "_"
                 /\ 1 < i
                 /\ i < Len(u)
                 /\ u[i - 1] \in Digits
                 /\ u[i + 1] \in Digits

DigitValue(c) ==
    CASE c = "0" -> 0 [] c = "1" -> 1 [] c = "2" -> 2 [] c = "3" -> 3
      [] c = "4" -> 4 [] c = "5" -> 5 [] c = "6" -> 6 [] c = "7" -> 7
      [] c = "8" -> 8 [] c = "9" -> 9

RECURSIVE magnitude(_, _)
magnitude(u, acc) ==
    IF u = <<>> THEN acc
    ELSE IF Head(u) = "_" THEN magnitude(Tail(u), acc)
    ELSE magnitude(Tail(u), 10 * acc + DigitValue(Head(u)))

\* int(s), for a text that parses
int(s) ==
    LET b == strip(s)
        m == magnitude(unsigned(b), 0)
    IN  IF b # <<>> /\ Head(b) = "-" THEN 0 - m ELSE m

-----------------------------------------------------------------------------
(* The store *)

\* get_conn without the PRAGMA: SQLite's default, foreign keys not enforced
ForeignKeysOff == FALSE

\* PRAGMA foreign_keys = ON, set on every connection
ForeignKeys == TRUE

\* schema.sql declares checkout.UserID REFERENCES user(ID) and checkout.ItemID
\* REFERENCES menu(ID), with no ON DELETE action
SchemaForeignKeys == TRUE

Enforced == ForeignKeys /\ SchemaForeignKeys

Max(S) == CHOOSE x \in S : \A y \in S : y <= x

\* the ID an INSERT assigns
NextId(tbl) == IF DOMAIN tbl = {} THEN 1 ELSE Max(DOMAIN tbl) + 1

Insert(tbl, row) == tbl @@ (NextId(tbl) :> row)

\* DELETE FROM tbl WHERE <the row's ID is in ids>
Delete(tbl, ids) == [i \in DOMAIN tbl \ ids |-> tbl[i]]

\* datetime('now')
Timestamp(n) == <<"t">> \o [i \in 1..n |-> "+"]

\* the statement fails with sqlite3.IntegrityError: the row written would
\* reference a user or a menu row that is not there
OrphanWrite(user_id, item_id) ==
    Enforced /\ (user_id \notin DOMAIN user \/ item_id \notin DOMAIN menu)

\* the statement fails with sqlite3.IntegrityError: a checkout row still
\* references the row it would delete
Referenced(column, id) ==
    Enforced /\ \E o \in DOMAIN checkout : checkout[o][column] = id

Idle == [pc |-> "idle"]

\* worker t takes the next request: the first worker that is free does
Accepts(t) == req[t].pc = "idle" /\ \A w \in Workers : w < t => req[w].pc # "idle"

Response(status, flash) == [status |-> status, flash |-> flash]

\* flash(message, "success"); return redirect(url_for("dashboard"))
Succeed(t) ==
    /\ resp' = Response(302, "success")
    /\ req' = [req EXCEPT ![t] = Idle]

\* flash(message, "danger"); return redirect(url_for("dashboard"))
Reject(t) ==
    /\ resp' = Response(302, "danger")
    /\ req' = [req EXCEPT ![t] = Idle]
    /\ UNCHANGED store

\* abort(404)
NotFound(t) ==
    /\ resp' = Response(404, "none")
    /\ req' = [req EXCEPT ![t] = Idle]
    /\ UNCHANGED store

\* an exception no handler catches: the statement is rolled back, Flask answers 500
ServerError(t) ==
    /\ resp' = Response(500, "none")
    /\ req' = [req EXCEPT ![t] = Idle]
    /\ UNCHANGED store

-----------------------------------------------------------------------------
(* Menu CRUD *)

\* a price check that forgot `if price < 0`
PriceOkSigned(price_raw) == parses(price_raw)

\* int(price_raw) succeeds and the price is not negative
PriceOk(price_raw) == parses(price_raw) /\ int(price_raw) >= 0

\* 1 if request.form.get("is_available") == "on" else 0
Available(v) == IF v = <<"o", "n">> THEN 1 ELSE 0

MenuRow(f) ==
    [Name |-> field(f.name, <<>>),
     Price |-> int(field(f.price, <<"0">>)),
     Category |-> field(f.category, DefaultCategory),
     IsAvailable |-> Available(f.is_available)]

menu_create(t, f) ==
    /\ Accepts(t)
    /\ UNCHANGED <<schema, now, boot, cap>>
    /\ IF field(f.name, <<>>) = <<>> THEN Reject(t)
       ELSE IF ~PriceOk(field(f.price, <<"0">>)) THEN Reject(t)
       ELSE /\ NextId(menu) <= cap
            /\ menu' = Insert(menu, MenuRow(f))
            /\ UNCHANGED <<user, checkout>>
            /\ Succeed(t)

\* the statements up to the UPDATE: the existence query and the validation
menu_update(t, item_id, f) ==
    /\ Accepts(t)
    /\ UNCHANGED <<schema, now, boot, cap>>
    /\ IF item_id \notin DOMAIN menu THEN NotFound(t)
       ELSE IF field(f.name, <<>>) = <<>> THEN Reject(t)
       ELSE IF ~PriceOk(field(f.price, <<"0">>)) THEN Reject(t)
       ELSE /\ req' = [req EXCEPT ![t] =
                         [pc |-> "menu_update_write", item_id |-> item_id, row |-> MenuRow(f)]]
            /\ UNCHANGED <<store, resp>>

\* an UPDATE that also reprices the orders of the item
menu_update_reprice(t) ==
    /\ req[t].pc = "menu_update_write"
    /\ UNCHANGED <<schema, now, boot, cap>>
    /\ menu' = [i \in DOMAIN menu |-> IF i = req[t].item_id THEN req[t].row ELSE menu[i]]
    /\ checkout' = [o \in DOMAIN checkout |->
                       IF checkout[o].ItemID = req[t].item_id
                       THEN [checkout[o] EXCEPT
                               !.ItemPrice = req[t].row.Price,
                               !.TotalPrice = req[t].row.Price * checkout[o].quantity]
                       ELSE checkout[o]]
    /\ UNCHANGED user
    /\ Succeed(t)

\* UPDATE menu SET ... WHERE ID = ?
menu_update_write(t) ==
    /\ req[t].pc = "menu_update_write"
    /\ UNCHANGED <<schema, now, boot, cap>>
    /\ menu' = [i \in DOMAIN menu |-> IF i = req[t].item_id THEN req[t].row ELSE menu[i]]
    /\ UNCHANGED <<user, checkout>>
    /\ Succeed(t)

\* a cascade that lost its WHERE clause
OrdersOfAnyItem(item_id) == DOMAIN checkout

\* the orders DELETE FROM checkout WHERE ItemID = ? removes
OrdersOfItem(item_id) == {o \in DOMAIN checkout : checkout[o].ItemID = item_id}

\* the first statement: the cascade
menu_delete(t, item_id) ==
    /\ Accepts(t)
    /\ UNCHANGED <<schema, now, boot, cap>>
    /\ checkout' = Delete(checkout, OrdersOfItem(item_id))
    /\ UNCHANGED <<menu, user, resp>>
    /\ req' = [req EXCEPT ![t] =
                 [pc |-> "menu_delete_row", item_id |-> item_id,
                  cascaded |-> OrdersOfItem(item_id) # {}]]

\* the second statement: DELETE FROM menu WHERE ID = ?
menu_delete_row(t) ==
    /\ req[t].pc = "menu_delete_row"
    /\ UNCHANGED <<schema, now, boot, cap>>
    /\ IF Referenced("ItemID", req[t].item_id)
       THEN ServerError(t)
       ELSE /\ menu' = Delete(menu, {req[t].item_id})
            /\ UNCHANGED <<user, checkout>>
            /\ Succeed(t)

-----------------------------------------------------------------------------
(* Customer CRUD *)

\* int(phone_raw) succeeds and the phone is positive
PhoneOk(phone_raw) == parses(phone_raw) /\ int(phone_raw) > 0

customer_create(t, f) ==
    /\ Accepts(t)
    /\ UNCHANGED <<schema, now, boot, cap>>
    /\ IF field(f.first_name, <<>>) = <<>> \/ field(f.last_name, <<>>) = <<>>
       THEN Reject(t)
       ELSE IF ~PhoneOk(field(f.phone, <<>>)) THEN Reject(t)
       ELSE /\ NextId(user) <= cap
            /\ user' = Insert(user, [FirstName |-> field(f.first_name, <<>>),
                                     LastName |-> field(f.last_name, <<>>),
                                     Phone |-> int(field(f.phone, <<>>)),
                                     CreatedAt |-> Timestamp(now)])
            /\ UNCHANGED <<menu, checkout>>
            /\ Succeed(t)

\* the statements up to the UPDATE: the existence query and the validation
customer_update(t, user_id, f) ==
    /\ Accepts(t)
    /\ UNCHANGED <<schema, now, boot, cap>>
    /\ IF user_id \notin DOMAIN user THEN NotFound(t)
       ELSE IF field(f.first_name, <<>>) = <<>> \/ field(f.last_name, <<>>) = <<>>
       THEN Reject(t)
       ELSE IF ~PhoneOk(field(f.phone, <<>>)) THEN Reject(t)
       ELSE /\ req' = [req EXCEPT ![t] =
                         [pc |-> "customer_update_write", user_id |-> user_id,
                          first |-> field(f.first_name, <<>>),
                          last |-> field(f.last_name, <<>>),
                          phone |-> int(field(f.phone, <<>>))]]
            /\ UNCHANGED <<store, resp>>

\* UPDATE user SET FirstName = ?, LastName = ?, Phone = ? WHERE ID = ?
customer_update_write(t) ==
    /\ req[t].pc = "customer_update_write"
    /\ UNCHANGED <<schema, now, boot, cap>>
    /\ user' = [i \in DOMAIN user |->
                  IF i = req[t].user_id
                  THEN [user[i] EXCEPT !.FirstName = req[t].first,
                                       !.LastName = req[t].last,
                                       !.Phone = req[t].phone]
                  ELSE user[i]]
    /\ UNCHANGED <<menu, checkout>>
    /\ Succeed(t)

\* the orders DELETE FROM checkout WHERE UserID = ? removes
OrdersOfUser(user_id) == {o \in DOMAIN checkout : checkout[o].UserID = user_id}

\* the first statement: the cascade
customer_delete(t, user_id) ==
    /\ Accepts(t)
    /\ UNCHANGED <<schema, now, boot, cap>>
    /\ checkout' = Delete(checkout, OrdersOfUser(user_id))
    /\ UNCHANGED <<menu, user, resp>>
    /\ req' = [req EXCEPT ![t] =
                 [pc |-> "customer_delete_row", user_id |-> user_id,
                  cascaded |-> OrdersOfUser(user_id) # {}]]

\* the second statement: DELETE FROM user WHERE ID = ?
customer_delete_row(t) ==
    /\ req[t].pc = "customer_delete_row"
    /\ UNCHANGED <<schema, now, boot, cap>>
    /\ IF Referenced("UserID", req[t].user_id)
       THEN ServerError(t)
       ELSE /\ user' = Delete(user, {req[t].user_id})
            /\ UNCHANGED <<menu, checkout>>
            /\ Succeed(t)

-----------------------------------------------------------------------------
(* Order CRUD *)

\* the try block: the three int() calls succeed and the quantity is positive
OrderOk(f) ==
    /\ parses(field(f.user_id, <<>>))
    /\ parses(field(f.item_id, <<>>))
    /\ parses(field(f.quantity, <<"1">>))
    /\ int(field(f.quantity, <<"1">>)) > 0

\* (request.form.get("notes") or "").strip() or None
Notes(v) == IF field(v, <<>>) = <<>> THEN Null ELSE field(v, <<>>)

\* int(item["Price"] or 0)
ItemPrice(item) == item.Price

\* a total that adds where it should multiply
TotalSum(item_price, qty) == item_price + qty

\* total = item_price * qty
Total(item_price, qty) == item_price * qty

\* the requests between their price query and their INSERT
Inserting == {w \in Workers : req[w].pc = "order_create_write"}

\* the statements up to the INSERT: the validation and the price query
order_create(t, f) ==
    /\ Accepts(t)
    /\ UNCHANGED <<schema, now, boot, cap>>
    /\ IF ~OrderOk(f) THEN Reject(t)
       ELSE IF int(field(f.item_id, <<>>)) \notin DOMAIN menu THEN Reject(t)
       ELSE /\ NextId(checkout) + Cardinality(Inserting) <= cap
            /\ req' = [req EXCEPT ![t] =
                         [pc |-> "order_create_write",
                          user_id |-> int(field(f.user_id, <<>>)),
                          item_id |-> int(field(f.item_id, <<>>)),
                          qty |-> int(field(f.quantity, <<"1">>)),
                          item_price |-> ItemPrice(menu[int(field(f.item_id, <<>>))]),
                          status |-> field(f.status, DefaultStatus),
                          notes |-> Notes(f.notes)]]
            /\ UNCHANGED <<store, resp>>

\* INSERT INTO checkout(...) VALUES (...)
order_create_write(t) ==
    /\ req[t].pc = "order_create_write"
    /\ UNCHANGED <<schema, now, boot, cap>>
    /\ IF OrphanWrite(req[t].user_id, req[t].item_id)
       THEN ServerError(t)
       ELSE /\ checkout' = Insert(checkout,
                                  [UserID |-> req[t].user_id,
                                   quantity |-> req[t].qty,
                                   ItemID |-> req[t].item_id,
                                   ItemPrice |-> req[t].item_price,
                                   TotalPrice |-> Total(req[t].item_price, req[t].qty),
                                   Status |-> req[t].status,
                                   Notes |-> req[t].notes,
                                   CreatedAt |-> Timestamp(now)])
            /\ UNCHANGED <<menu, user>>
            /\ Succeed(t)

\* the statements up to the price query: the existence query and the validation
order_update(t, order_id, f) ==
    /\ Accepts(t)
    /\ UNCHANGED <<schema, now, boot, cap>>
    /\ IF order_id \notin DOMAIN checkout THEN NotFound(t)
       ELSE IF ~OrderOk(f) THEN Reject(t)
       ELSE /\ req' = [req EXCEPT ![t] =
                         [pc |-> "order_update_price",
                          order_id |-> order_id,
                          user_id |-> int(field(f.user_id, <<>>)),
                          item_id |-> int(field(f.item_id, <<>>)),
                          qty |-> int(field(f.quantity, <<"1">>)),
                          status |-> field(f.status, DefaultStatus),
                          notes |-> Notes(f.notes)]]
            /\ UNCHANGED <<store, resp>>

\* SELECT Price FROM menu WHERE ID = ?
order_update_price(t) ==
    /\ req[t].pc = "order_update_price"
    /\ UNCHANGED <<schema, now, boot, cap>>
    /\ IF req[t].item_id \notin DOMAIN menu THEN Reject(t)
       ELSE /\ req' = [req EXCEPT ![t] =
                         [pc |-> "order_update_write",
                          order_id |-> req[t].order_id,
                          user_id |-> req[t].user_id,
                          item_id |-> req[t].item_id,
                          qty |-> req[t].qty,
                          item_price |-> ItemPrice(menu[req[t].item_id]),
                          status |-> req[t].status,
                          notes |-> req[t].notes]]
            /\ UNCHANGED <<store, resp>>

\* UPDATE checkout SET ... WHERE ID = ?
order_update_write(t) ==
    /\ req[t].pc = "order_update_write"
    /\ UNCHANGED <<schema, now, boot, cap>>
    /\ IF req[t].order_id \in DOMAIN checkout /\ OrphanWrite(req[t].user_id, req[t].item_id)
       THEN ServerError(t)
       ELSE /\ checkout' = [o \in DOMAIN checkout |->
                              IF o = req[t].order_id
                              THEN [checkout[o] EXCEPT
                                      !.UserID = req[t].user_id,
                                      !.quantity = req[t].qty,
                                      !.ItemID = req[t].item_id,
                                      !.ItemPrice = req[t].item_price,
                                      !.TotalPrice = Total(req[t].item_price, req[t].qty),
                                      !.Status = req[t].status,
                                      !.Notes = req[t].notes]
                              ELSE checkout[o]]
            /\ UNCHANGED <<menu, user>>
            /\ Succeed(t)

\* DELETE FROM checkout WHERE ID = ?
order_delete(t, order_id) ==
    /\ Accepts(t)
    /\ UNCHANGED <<schema, now, boot, cap>>
    /\ checkout' = Delete(checkout, {order_id})
    /\ UNCHANGED <<menu, user>>
    /\ Succeed(t)

-----------------------------------------------------------------------------
(* init_db *)

\* the columns schema.sql gives a table it creates
BaseColumns ==
    [menu |-> {"ID", "Name", "Price"},
     user |-> {"ID", "FirstName", "LastName", "Phone"},
     checkout |-> {"ID", "UserID", "quantity", "ItemID", "ItemPrice", "TotalPrice"}]

Tables == {"menu", "user", "checkout"}

\* the `if not has_column(...)` blocks of init_db, in their order: the column,
\* the DEFAULT of its ALTER TABLE, and whether an UPDATE backfills it
Migrations ==
    << [table |-> "user", column |-> "CreatedAt", default |-> Null, backfill |-> TRUE],
       [table |-> "menu", column |-> "Category", default |-> DefaultCategory, backfill |-> FALSE],
       [table |-> "menu", column |-> "IsAvailable", default |-> 1, backfill |-> FALSE],
       [table |-> "checkout", column |-> "CreatedAt", default |-> Null, backfill |-> TRUE],
       [table |-> "checkout", column |-> "Status", default |-> DefaultStatus, backfill |-> FALSE],
       [table |-> "checkout", column |-> "Notes", default |-> Null, backfill |-> FALSE] >>

Rows(table) ==
    CASE table = "menu" -> menu
      [] table = "user" -> user
      [] table = "checkout" -> checkout

\* the statement writes `rows` to `table` and leaves the other tables alone
Write(table, rows) ==
    /\ menu' = IF table = "menu" THEN rows ELSE menu
    /\ user' = IF table = "user" THEN rows ELSE user
    /\ checkout' = IF table = "checkout" THEN rows ELSE checkout

\* a has_column that never finds the column
has_column_never(table, col) == FALSE

\* any(r["name"] == col for r in PRAGMA table_info(table))
has_column(table, col) == table \in tabs /\ col \in cols[table]

\* ALTER TABLE table ADD COLUMN col ... DEFAULT default: the rows of the table
\* afterwards, each reading the default in the new column
AddColumn(rows, col, default) == [i \in DOMAIN rows |-> rows[i] @@ (col :> default)]

\* COALESCE(v, datetime('now'))
Coalesce(v, t) == IF v = Null THEN t ELSE v

\* UPDATE table SET col = COALESCE(col, datetime('now'))
Backfill(rows, col) ==
    [i \in DOMAIN rows |-> [rows[i] EXCEPT ![col] = Coalesce(rows[i][col], Timestamp(now))]]

\* conn.executescript(schema.sql): creates each table that is missing
init_schema ==
    /\ boot.pc = "schema"
    /\ tabs' = Tables
    /\ cols' = [t \in Tables |-> IF t \in tabs THEN cols[t] ELSE BaseColumns[t]]
    /\ boot' = [boot EXCEPT !.pc = "migrate", !.k = 1]
    /\ UNCHANGED <<store, now, req, resp, cap>>

\* what follows block k
After(k) == IF k = Len(Migrations) THEN [pc |-> "done", k |-> k] ELSE [pc |-> "migrate", k |-> k + 1]

\* one `if not has_column(table, col): execute("ALTER TABLE ...")`
migrate ==
    /\ boot.pc = "migrate"
    /\ LET m == Migrations[boot.k]
           next == IF m.backfill THEN [pc |-> "backfill", k |-> boot.k] ELSE After(boot.k)
       IN  IF has_column(m.table, m.column)
           THEN /\ boot' = [boot EXCEPT !.pc = After(boot.k).pc, !.k = After(boot.k).k]
                /\ UNCHANGED <<store, schema>>
           ELSE IF m.table \notin tabs \/ m.column \in cols[m.table]
           \* sqlite3.OperationalError: no such table, or duplicate column name
           THEN /\ boot' = [boot EXCEPT !.pc = "failed"]
                /\ UNCHANGED <<store, schema>>
           ELSE /\ cols' = [cols EXCEPT ![m.table] = @ \cup {m.column}]
                /\ Write(m.table, AddColumn(Rows(m.table), m.column, m.default))
                /\ boot' = [boot EXCEPT !.pc = next.pc, !.k = next.k]
                /\ UNCHANGED tabs
    /\ UNCHANGED <<now, req, resp, cap>>

\* the UPDATE that follows the ALTER TABLE of a CreatedAt column
backfill ==
    /\ boot.pc = "backfill"
    /\ LET m == Migrations[boot.k]
       IN  Write(m.table, Backfill(Rows(m.table), m.column))
    /\ boot' = [boot EXCEPT !.pc = After(boot.k).pc, !.k = After(boot.k).k]
    /\ UNCHANGED <<schema, now, req, resp, cap>>

\* the process is started again: app.py runs init_db at import
restart ==
    /\ boot.pc = "done"
    /\ boot.run < MaxRuns
    /\ boot' = [pc |-> "schema", k |-> 0, run |-> boot.run + 1,
                first |-> IF boot.run = 1 THEN <<store, schema>> ELSE boot.first]
    /\ UNCHANGED <<store, schema, now, req, resp, cap>>

\* time passes
tick ==
    /\ now < MaxClock
    /\ now' = now + 1
    /\ UNCHANGED <<store, schema, req, resp, boot, cap>>

-----------------------------------------------------------------------------
(* The requests explored *)

\* the forms of the requests served one at a time: every way a field is
\* refused, defaulted or accepted
MenuForms ==
    [name : {None, <<" ">>, <<" ", "a">>},
     price : {None, <<>>, <<" ">>, <<"x">>, <<"1", ".", "5">>, <<"-", "2">>, <<" ", "2">>},
     category : {None},
     is_available : {None}]

CustomerForms ==
    [first_name : {None, <<"a", " ">>},
     last_name : {<<" ">>, <<"b">>},
     phone : {None, <<"x">>, <<"0">>, <<"-", "7">>, <<"7">>}]

OrderForms ==
    [user_id : {<<"x">>, <<"1">>, <<"2">>},
     item_id : {None, <<"1">>, <<"2">>},
     quantity : {None, <<"x">>, <<"0">>, <<"-", "3">>, <<"3">>},
     status : {None},
     notes : {None, <<" ">>}]

\* the forms of the requests that interleave: one accepted value a field,
\* and a refused one
RaceMenuForms ==
    [name : {None, <<" ", "a">>},
     price : {<<"-", "2">>, <<" ", "2">>},
     category : {None},
     is_available : {None}]

RaceCustomerForms ==
    [first_name : {<<"a", " ">>},
     last_name : {<<" ">>, <<"b">>},
     phone : {<<"0">>, <<"7">>}]

RaceOrderForms ==
    [user_id : {<<"1">>, <<"2">>},
     item_id : {<<"1">>, <<"2">>},
     quantity : {<<"0">>, <<"3">>},
     status : {None},
     notes : {None}]

\* the <int:...> of a path
PathIds == 1..cap

AllColumns ==
    [menu |-> {"ID", "Name", "Price", "Category", "IsAvailable"},
     user |-> {"ID", "FirstName", "LastName", "Phone", "CreatedAt"},
     checkout |-> {"ID", "UserID", "quantity", "ItemID", "ItemPrice", "TotalPrice",
                   "CreatedAt", "Status", "Notes"}]

\* the store init_db leaves when it starts from no file, and no request yet
Init ==
    /\ menu = <<>>
    /\ user = <<>>
    /\ checkout = <<>>
    /\ tabs = {"menu", "user", "checkout"}
    /\ cols = AllColumns
    /\ now = 0
    /\ req = [w \in Workers |-> Idle]
    /\ resp = Response(200, "none")
    /\ boot = [pc |-> "done", k |-> Len(Migrations), run |-> 1, first |-> <<>>]
    /\ cap = MaxId

\* the steps of the workers W on forms drawn from MF, CF and OF
Requests(W, MF, CF, OF) ==
    \E t \in W :
        \/ \E f \in MF : menu_create(t, f)
        \/ \E i \in PathIds, f \in MF : menu_update(t, i, f)
        \/ menu_update_write(t)
        \/ \E i \in PathIds : menu_delete(t, i)
        \/ menu_delete_row(t)
        \/ \E f \in CF : customer_create(t, f)
        \/ \E i \in PathIds, f \in CF : customer_update(t, i, f)
        \/ customer_update_write(t)
        \/ \E i \in PathIds : customer_delete(t, i)
        \/ customer_delete_row(t)
        \/ \E f \in OF : order_create(t, f)
        \/ order_create_write(t)
        \/ \E i \in PathIds, f \in OF : order_update(t, i, f)
        \/ order_update_price(t)
        \/ order_update_write(t)
        \/ \E i \in PathIds : order_delete(t, i)

\* two requests at a time
Next == Requests(Workers, RaceMenuForms, RaceCustomerForms, RaceOrderForms)

Spec == Init /\ [][Next]_vars

\* one request at a time
NextSeq == Requests({1}, MenuForms, CustomerForms, OrderForms)

InitSeq == Init!1 /\ Init!2 /\ Init!3 /\ Init!4 /\ Init!5 /\ Init!6 /\ Init!7 /\ Init!8 /\ Init!9 /\ cap = MaxSeqId

SpecSeq == InitSeq /\ [][NextSeq]_vars

\* the two values a legacy row is given in a migrated column
Legacy(col, alt) ==
    CASE col = "CreatedAt" -> IF alt THEN Null ELSE <<"t", "-">>
      [] col = "Category" -> IF alt THEN Null ELSE <<"c">>
      [] col = "IsAvailable" -> IF alt THEN 1 ELSE 0
      [] col = "Status" -> IF alt THEN Null ELSE <<"s">>
      [] col = "Notes" -> IF alt THEN Null ELSE <<"n">>

\* a row of the legacy store, in the table's base columns
LegacyBase ==
    [menu |-> [Name |-> <<"a">>, Price |-> 2],
     user |-> [FirstName |-> <<"a">>, LastName |-> <<"b">>, Phone |-> 7],
     checkout |-> [UserID |-> 1, quantity |-> 3, ItemID |-> 1, ItemPrice |-> 2, TotalPrice |-> 6]]

\* the rows a legacy table with the migrated columns `extra` may hold: none,
\* or one row with either legacy value in each of them
LegacyRows(table, extra) ==
    {<<>>} \cup
    {<<LegacyBase[table] @@ [c \in extra |-> Legacy(c, b[c])]>> : b \in [extra -> BOOLEAN]}

\* the schemas a process may find when it starts: each table missing, or there
\* with any of its migrated columns
LegacySchemas ==
    {[t \in Tables |-> IF t \in T THEN BaseColumns[t] \cup e[t] ELSE {}] :
        T \in SUBSET Tables,
        e \in [menu : SUBSET (AllColumns.menu \ BaseColumns.menu),
               user : SUBSET (AllColumns.user \ BaseColumns.user),
               checkout : SUBSET (AllColumns.checkout \ BaseColumns.checkout)]}

InitBoot ==
    /\ cols \in LegacySchemas
    /\ tabs = {t \in Tables : cols[t] # {}}
    /\ menu \in LegacyRows("menu", cols["menu"] \ BaseColumns["menu"])
    /\ user \in LegacyRows("user", cols["user"] \ BaseColumns["user"])
    /\ checkout \in LegacyRows("checkout", cols["checkout"] \ BaseColumns["checkout"])
    /\ now = 0
    /\ req = [w \in Workers |-> Idle]
    /\ resp = Response(200, "none")
    /\ boot = [pc |-> "schema", k |-> 0, run |-> 1, first |-> <<>>]
    /\ cap = MaxId

NextBoot == init_schema \/ migrate \/ backfill \/ restart \/ tick

SpecBoot == InitBoot /\ [][NextBoot]_vars

-----------------------------------------------------------------------------
(* Referential integrity of the orders *)

\* C1: in every reachable state, whatever the interleaving of the requests,
\* every order references a customer and a menu item that both exist.
C1_NoOrphanOrder ==
    \A o \in DOMAIN checkout :
        checkout[o].UserID \in DOMAIN user /\ checkout[o].ItemID \in DOMAIN menu

\* a menu_delete stands between its two statements, and an order inserted
\* meanwhile references the item it is about to delete
C1_Witness ==
    \E t \in Workers :
        /\ req[t].pc = "menu_delete_row"
        /\ req[t].cascaded
        /\ \E o \in DOMAIN checkout : checkout[o].ItemID = req[t].item_id

-----------------------------------------------------------------------------
(* The total of an order *)

TotalIsPriceTimesQuantity ==
    \A o \in DOMAIN checkout :
        /\ checkout[o].quantity > 0
        /\ checkout[o].TotalPrice = checkout[o].ItemPrice * checkout[o].quantity

Priced(row) == <<row.ItemPrice, row.quantity, row.TotalPrice>>

\* the step gives some order an ItemPrice, a quantity or a TotalPrice it did not have
PriceWritten ==
    \E o \in DOMAIN checkout' :
        o \notin DOMAIN checkout \/ Priced(checkout'[o]) # Priced(checkout[o])

\* C2: every order has TotalPrice = ItemPrice * quantity with quantity > 0, and
\* only the INSERT of order_create and the UPDATE of order_update write the three.
C2_TotalPrice ==
    /\ []TotalIsPriceTimesQuantity
    /\ [][PriceWritten => \E t \in Workers : order_create_write(t) \/ order_update_write(t)]_vars

\* an order that order_update has rewritten while another request was under way
C2_Witness ==
    /\ resp = Response(302, "success")
    /\ \E o \in DOMAIN checkout : checkout[o].TotalPrice = 6 /\ checkout[o].quantity = 3
    /\ \E t \in Workers : req[t].pc = "order_update_write"

-----------------------------------------------------------------------------
(* Cascading deletes *)

\* the step removes the orders whose `column` is `id` and no other
CascadeOnly(column, id) ==
    /\ DOMAIN checkout' = {o \in DOMAIN checkout : checkout[o][column] # id}
    /\ \A o \in DOMAIN checkout' : checkout'[o] = checkout[o]

\* `after` is `before` without row `id`
RowRemoved(before, after, id) ==
    /\ DOMAIN after = DOMAIN before \ {id}
    /\ \A i \in DOMAIN after : after[i] = before[i]

\* C9: menu_delete(id) and customer_delete(id) remove the orders of the entity
\* and no other, then the entity and no other; when the request has completed
\* no order references the entity and every other row is as it was.
C9_CascadeDelete ==
    [][\A t \in Workers :
          /\ \A i \in PathIds :
                /\ menu_delete(t, i) =>
                      CascadeOnly("ItemID", i) /\ menu' = menu /\ user' = user
                /\ customer_delete(t, i) =>
                      CascadeOnly("UserID", i) /\ menu' = menu /\ user' = user
          /\ (menu_delete_row(t) /\ resp'.flash = "success") =>
                /\ RowRemoved(menu, menu', req[t].item_id)
                /\ checkout' = checkout /\ user' = user
                /\ \A o \in DOMAIN checkout' : checkout'[o].ItemID # req[t].item_id
          /\ (customer_delete_row(t) /\ resp'.flash = "success") =>
                /\ RowRemoved(user, user', req[t].user_id)
                /\ checkout' = checkout /\ menu' = menu
                /\ \A o \in DOMAIN checkout' : checkout'[o].UserID # req[t].user_id
      ]_vars

\* the cascade of a menu_delete has removed the orders of its item, and an
\* order of the other item and the other item are still there
C9_Witness ==
    \E t \in Workers :
        /\ req[t].pc = "menu_delete_row"
        /\ req[t].cascaded
        /\ \E o \in DOMAIN checkout : checkout[o].ItemID # req[t].item_id
        /\ \A o \in DOMAIN checkout : checkout[o].ItemID # req[t].item_id
        /\ DOMAIN menu = {1, 2}

\* C7: a menu_delete or customer_delete that fails has applied none of its
\* deletions: it never fails after its cascade removed orders.
C7_AllOrNothing ==
    [][\A t \in Workers :
          ((menu_delete_row(t) \/ customer_delete_row(t)) /\ resp'.status = 500)
              => ~req[t].cascaded
      ]_vars

-----------------------------------------------------------------------------
(* The price snapshot *)

\* C3: an order created against an item priced P with quantity Q has
\* ItemPrice = P and TotalPrice = P * Q, and a later menu_update changes the
\* ItemPrice and TotalPrice of no order.
C3_PriceSnapshot ==
    [][\A t \in Workers :
          /\ (order_create_write(t) /\ resp'.flash = "success") =>
                \E o \in DOMAIN checkout' \ DOMAIN checkout :
                    /\ checkout'[o].ItemID = req[t].item_id
                    /\ checkout'[o].quantity = req[t].qty
                    /\ checkout'[o].ItemPrice = menu[req[t].item_id].Price
                    /\ checkout'[o].TotalPrice = menu[req[t].item_id].Price * req[t].qty
          /\ menu_update_write(t) =>
                \A o \in DOMAIN checkout :
                    /\ o \in DOMAIN checkout'
                    /\ checkout'[o].ItemPrice = checkout[o].ItemPrice
                    /\ checkout'[o].TotalPrice = checkout[o].TotalPrice
      ]_vars

\* an order of 3 keeps the price 2 and the total 6 it was created with, after
\* a menu_update has priced its item 0
C3_Witness ==
    \E o \in DOMAIN checkout :
        /\ checkout[o].ItemID \in DOMAIN menu
        /\ menu[checkout[o].ItemID].Price = 0
        /\ checkout[o].ItemPrice = 2
        /\ checkout[o].quantity = 3
        /\ checkout[o].TotalPrice = 6

-----------------------------------------------------------------------------
(* Refused input *)

\* the text is not an integer: the field is absent, empty, or not a literal
NotInteger(v) == v = None \/ ~parses(v)

Negative(v) == NotInteger(v) \/ int(v) < 0

NotPositive(v) == NotInteger(v) \/ int(v) <= 0

\* the mandatory name is empty after trimming
NoName(v) == v = None \/ strip(v) = <<>>

\* the field as given, or the default d when it is absent or empty
Defaulted(v, d) == IF v = None \/ v = <<>> THEN d ELSE v

\* worker t answers without success and the three tables are as they were
Refused(t) == req'[t] = Idle /\ resp'.flash # "success" /\ store' = store

\* worker t takes a menu form of BM, a customer form of BC or an order form
\* of BO, in a create or in an update
Takes(t, BM, BC, BO) ==
    \/ \E f \in BM : menu_create(t, f) \/ \E i \in PathIds : menu_update(t, i, f)
    \/ \E f \in BC : customer_create(t, f) \/ \E i \in PathIds : customer_update(t, i, f)
    \/ \E f \in BO : order_create(t, f) \/ \E i \in PathIds : order_update(t, i, f)

BadCustomerForms ==
    {f \in CustomerForms :
        NoName(f.first_name) \/ NoName(f.last_name) \/ NotPositive(f.phone)}

BadMenuFormsAsGiven == {f \in MenuForms : NoName(f.name) \/ Negative(f.price)}

BadOrderFormsAsGiven == {f \in OrderForms : NotPositive(f.quantity)}

BadMenuForms == {f \in MenuForms : NoName(f.name) \/ Negative(Defaulted(f.price, <<"0">>))}

BadOrderForms == {f \in OrderForms : NotPositive(Defaulted(f.quantity, <<"1">>))}

-----------------------------------------------------------------------------
(* Outcomes the handlers do not give *)

\* worker t answers 404 and the three tables are as they were
Answers404(t) == req'[t] = Idle /\ resp' = Response(404, "none") /\ store' = store

\* C4: every update and every delete of an identity that has no row answers
\* 404 and leaves the store as it was.
C4_NotFound ==
    [][\A t \in Workers, i \in PathIds :
          /\ i \notin DOMAIN menu =>
                /\ \A f \in MenuForms : menu_update(t, i, f) => Answers404(t)
                /\ menu_delete(t, i) => Answers404(t)
          /\ i \notin DOMAIN user =>
                /\ \A f \in CustomerForms : customer_update(t, i, f) => Answers404(t)
                /\ customer_delete(t, i) => Answers404(t)
          /\ i \notin DOMAIN checkout =>
                /\ \A f \in OrderForms : order_update(t, i, f) => Answers404(t)
                /\ order_delete(t, i) => Answers404(t)
      ]_vars

\* worker t answers with a reason and a redirect, and the three tables are as they were
Invalid(t) == req'[t] = Idle /\ resp' = Response(302, "danger") /\ store' = store

\* the form passes the try block and names a customer or a menu item that has no row
Dangling(f) ==
    /\ OrderOk(f)
    /\ \/ int(field(f.user_id, <<>>)) \notin DOMAIN user
       \/ int(field(f.item_id, <<>>)) \notin DOMAIN menu

\* C5: order_create and order_update refuse, as a validation failure and with
\* no write, a form whose user_id or item_id names no row; no order write
\* ends in a server error.
C5_DanglingRefused ==
    [][\A t \in Workers :
          /\ \A f \in OrderForms :
                Dangling(f) =>
                    /\ order_create(t, f) => Invalid(t)
                    /\ \A i \in DOMAIN checkout : order_update(t, i, f) => Invalid(t)
          /\ (order_create_write(t) \/ order_update_write(t)) => resp'.status # 500
      ]_vars

\* C8: menu_create of a form with a name and an integer price >= 0 adds one row
\* with that name and price under a fresh ID, IsAvailable true and the default
\* Category when the form omits them, and changes no other row.
C8_MenuCreate ==
    [][\A t \in Workers, f \in MenuForms :
          (menu_create(t, f) /\ ~NoName(f.name) /\ ~Negative(f.price)) =>
              /\ \E id \in DOMAIN menu' \ DOMAIN menu :
                    /\ DOMAIN menu' = DOMAIN menu \cup {id}
                    /\ menu'[id].Name = strip(f.name)
                    /\ menu'[id].Price = int(f.price)
                    /\ f.is_available = None => menu'[id].IsAvailable = 1
                    /\ f.category = None => menu'[id].Category = DefaultCategory
              /\ \A i \in DOMAIN menu : menu'[i] = menu[i]
              /\ user' = user /\ checkout' = checkout
      ]_vars

-----------------------------------------------------------------------------
(* The migration *)

\* every row of `before` is in `after` with the values it had; only a NULL
\* CreatedAt may have been filled in
Kept(before, after) ==
    \A i \in DOMAIN before :
        /\ i \in DOMAIN after
        /\ \A c \in DOMAIN before[i] :
              \/ after[i][c] = before[i][c]
              \/ c = "CreatedAt" /\ before[i][c] = Null

\* the step removes no table, no column and no row, and overwrites no value
NonDestructive ==
    /\ tabs \subseteq tabs'
    /\ \A t \in tabs : cols[t] \subseteq cols'[t]
    /\ Kept(menu, menu') /\ Kept(user, user') /\ Kept(checkout, checkout')

\* C10: init_db run again raises nothing and leaves the tables, the columns
\* and the rows the first run left; no step of it removes a table, a column or
\* a row, or overwrites a value that is not NULL.
C10_InitDbIdempotent ==
    /\ [](boot.pc # "failed")
    /\ [](boot.run > 1 => <<store, schema>> = boot.first)
    /\ [][NonDestructive]_vars

\* a second init_db has finished, later than the first, on a legacy customer
\* whose CreatedAt the first run filled in
C10_Witness ==
    /\ boot.run = 2
    /\ boot.pc = "done"
    /\ now > 0
    /\ user # <<>>
    /\ user[1].CreatedAt = Timestamp(0)

====
